---- MODULE Spec2Model ----
(***************************************************************************)
(* Model of src/main.py: an HTTP-triggered handler that lists the disks of *)
(* a project/zone and creates one snapshot per disk.                       *)
(*                                                                         *)
(* The four module-level functions (wait_for_extended_operation,           *)
(* list_disks, create_snapshot, create_snapshots_for_all_disks) and the    *)
(* handler main are modelled statement by statement.  A behaviour is one   *)
(* call of one of the public functions (the "entry"), with the provider's  *)
(* answers chosen nondeterministically.  Provider calls are recorded in    *)
(* `calls`, printed lines in `log`, and what main returns in `responses`.  *)
(***************************************************************************)
EXTENDS Integers, Sequences, FiniteSets, TLC

\* ------------------------------------------------------------------ bounds

\* Most disks the listing returns.
MaxDisks == 2
\* Most warnings a resolved operation carries.
MaxWarnings == 2
\* Most month boundaries the wall clock crosses during one call.
MaxClock == 1

\* ----------------------------------------------------------- Python values

\* A Python value: None, bool, int, str, list (by length), or the dict a
\* request body parses to (its key set and the values of "project"/"zone").
PyNone == [t |-> "None", s |-> "", n |-> 0]
PyStr(x) == [t |-> "str", s |-> x, n |-> 0]
PyInt(k) == [t |-> "int", s |-> "", n |-> k]
PyBool(b) == [t |-> "bool", s |-> "", n |-> IF b THEN 1 ELSE 0]
PyList(k) == [t |-> "list", s |-> "", n |-> k]
PyDict(ks, p, z) == [t |-> "dict", s |-> "", n |-> Cardinality(ks), keys |-> ks, project |-> p, zone |-> z]

\* Python truthiness (`if x`, `not x`).
Truthy(v) ==
    CASE v.t = "None" -> FALSE
      [] v.t = "bool" -> v.n = 1
      [] v.t = "int" -> v.n # 0
      [] v.t = "str" -> v.s # ""
      [] v.t = "list" -> v.n > 0
      [] v.t = "dict" -> v.n > 0

\* `x is None`.
IsNone(v) == v.t = "None"

Digit(d) == CASE d = 0 -> "0" [] d = 1 -> "1" [] d = 2 -> "2" [] d = 3 -> "3" [] d = 4 -> "4"
              [] d = 5 -> "5" [] d = 6 -> "6" [] d = 7 -> "7" [] d = 8 -> "8" [] d = 9 -> "9"

\* str(k) for a non-negative int.
RECURSIVE IntToStr(_)
IntToStr(k) == IF k < 10 THEN Digit(k) ELSE IntToStr(k \div 10) \o Digit(k % 10)

\* str(v), as an f-string renders a value.
PyToStr(v) ==
    CASE v.t = "None" -> "None"
      [] v.t = "bool" -> (IF v.n = 1 THEN "True" ELSE "False")
      [] v.t = "int" -> IntToStr(v.n)
      [] v.t = "str" -> v.s
      [] OTHER -> "<object>"

\* dict.get(key): the value, or None when the key is absent.
DictGet(d, key) ==
    IF key \in d.keys THEN (IF key = "project" THEN d.project ELSE IF key = "zone" THEN d.zone ELSE PyInt(1))
    ELSE PyNone

\* An exception object; str(e) is its message.
Exc(type, msg) == [type |-> type, msg |-> msg]
NoExc == <<>>

\* -------------------------------------------------------------- inputs

\* Values a request gives "project" and "zone" (JSON null, "", a name).
ProjectVals == {PyNone, PyStr(""), PyStr("p1")}
ZoneVals == {PyNone, PyStr(""), PyStr("z1")}

\* The JSON objects a body can hold: every combination of project/zone
\* present or absent, and the object whose only key is a foreign one.
JsonObjects ==
    {PyDict({"project", "zone"}, p, z) : p \in ProjectVals, z \in ZoneVals}
    \cup {PyDict({"project"}, p, PyNone) : p \in ProjectVals}
    \cup {PyDict({"zone"}, PyNone, z) : z \in ZoneVals}
    \cup {PyDict({}, PyNone, PyNone), PyDict({"other"}, PyNone, PyNone)}

\* JSON documents that are not objects.
JsonNonObjects ==
    {PyNone, PyBool(FALSE), PyBool(TRUE), PyInt(0), PyInt(7), PyStr(""), PyStr("abc"), PyList(0), PyList(1)}

\* A request: the syntax of its body (no bytes, bytes that are not JSON, a
\* JSON document), the document, and whether the mimetype says JSON.
Requests ==
    {[syntax |-> "empty", value |-> PyNone, is_json |-> j] : j \in BOOLEAN}
    \cup {[syntax |-> "garbage", value |-> PyNone, is_json |-> j] : j \in BOOLEAN}
    \cup {[syntax |-> "json", value |-> v, is_json |-> j] : v \in JsonObjects \cup JsonNonObjects, j \in BOOLEAN}

NoRequest == [syntax |-> "none", value |-> PyNone, is_json |-> FALSE]

\* request.get_data(): the body's bytes; falsy exactly when there are none.
get_data(req) == IF req.syntax = "empty" THEN PyStr("") ELSE PyStr("<bytes>")

\* request.get_json(silent=True): the parsed document, or None when the
\* mimetype is not JSON or the body does not parse.
get_json(req) == IF req.is_json /\ req.syntax = "json" THEN req.value ELSE PyNone

\* Names of the disks of the zone.
DiskName(i) == "d" \o IntToStr(i)
DiskNames == {DiskName(i) : i \in 1..MaxDisks}

\* What a listing can return: the disks in any order, without repeats.
DiskLists ==
    {s \in UNION {[1..k -> DiskNames] : k \in 0..MaxDisks} :
        \A i, j \in DOMAIN s : i # j => s[i] # s[j]}

\* Messages of the failures the listing call can raise.
ListErrors == {"quota exceeded", "permission denied"}

\* The provider's warnings on an operation.
Warning(i) == [code |-> "W" \o IntToStr(i), message |-> "warning " \o IntToStr(i)]
Warnings(k) == [i \in 1..k |-> Warning(i)]

\* How an operation resolves: what operation.result(timeout) does (returns,
\* times out, raises the operation's own error, raises a transport error),
\* and the attributes the operation then shows.
Operation(name, wait, code, msg, hasExc, nwarn) ==
    [name |-> name, wait |-> wait, error_code |-> code, error_message |-> msg,
     has_exception |-> hasExc, warnings |-> Warnings(nwarn)]

Operations(name) ==
    {Operation(name, "returns", 0, "", FALSE, k) : k \in 0..MaxWarnings}
    \cup {Operation(name, "returns", 409, "already exists", h, 0) : h \in BOOLEAN}
    \cup {Operation(name, "raises", 409, "already exists", TRUE, 0),
          Operation(name, "raises", 0, "", FALSE, 0),
          Operation(name, "timeout", 0, "", FALSE, 0)}

\* The exception operation.result() raises, by the way the operation resolves.
ResultException(op) ==
    CASE op.wait = "timeout" -> Exc("TimeoutError", "Operation did not complete within the designated timeout")
      [] op.wait = "raises" /\ op.error_code # 0 -> Exc("GoogleAPICallError", IntToStr(op.error_code) \o " " \o op.error_message)
      [] OTHER -> Exc("ServiceUnavailable", "503 polling failed")

\* operation.exception(): the provider's exception, or None.
OperationException(op) ==
    IF op.has_exception THEN <<Exc("GoogleAPICallError", IntToStr(op.error_code) \o " " \o op.error_message)>> ELSE NoExc

\* --------------------------------------------------------------- state

VARIABLES
    entry,        \* the function this behaviour calls: "" before the call
    pc,           \* the statement about to run
    request,      \* main's argument
    request_json, \* main's local
    project,      \* main's local
    zone,         \* main's local
    ld,           \* list_disks' arguments
    disks,        \* create_snapshots_for_all_disks' local: the listing
    idx,          \* position of the for loop in disks
    current_month_name, \* orchestrator's local
    current_year, \* orchestrator's local
    cs,           \* create_snapshot's arguments and locals
    wt,           \* wait_for_extended_operation's arguments
    exc,          \* the exception in flight (or, at "done", escaped): <<e>> or <<>>
    result,       \* what the entry function returned, once it has: <<v>> or <<>>
    clock,        \* the wall clock: year and month
    pending,      \* names of the operations still pending at the provider
    calls,        \* the provider calls issued, in order
    log,          \* the lines printed, in order
    responses     \* the HTTP responses main returned, in order

vars == <<entry, pc, request, request_json, project, zone, ld, disks, idx, current_month_name,
          current_year, cs, wt, exc, result, clock, pending, calls, log, responses>>

mainLocals == <<request, request_json, project, zone>>
csadLocals == <<disks, idx, current_month_name, current_year>>
outputs == <<calls, log, responses>>

NoArgs == [none |-> TRUE]

Init ==
    /\ entry = ""
    /\ pc = "idle"
    /\ request = NoRequest
    /\ request_json = PyNone
    /\ project = PyNone
    /\ zone = PyNone
    /\ ld = NoArgs
    /\ disks = <<>>
    /\ idx = 0
    /\ current_month_name = ""
    /\ current_year = ""
    /\ cs = NoArgs
    /\ wt = NoArgs
    /\ exc = NoExc
    /\ result = <<>>
    /\ clock = [year |-> 2024, month |-> 12]
    /\ pending = {}
    /\ calls = <<>>
    /\ log = <<>>
    /\ responses = <<>>

\* A printed line.
Line(stream, text) == [stream |-> stream, text |-> text]

\* make_response(jsonify({key: text}), status).
Response(status, key, text) == [status |-> status, key |-> key, text |-> text]

\* ----------------------------------------------------------- control flow

\* Where control goes when list_disks raises: the orchestrator has no
\* handler around the call, so the exception reaches main's except clause.
Unwind_list_disks == IF entry = "list_disks" THEN "done" ELSE "main_except"

\* Where control goes when create_snapshot raises: the orchestrator's
\* per-disk except clause.
Unwind_create_snapshot == IF entry = "create_snapshot" THEN "done" ELSE "csad_except"

\* Where control goes when wait_for_extended_operation raises:
\* create_snapshot has no handler, so the exception passes through it.
Unwind_wait == IF entry = "wait_for_extended_operation" THEN "done" ELSE Unwind_create_snapshot

\* ------------------------------------------------------------------- main

\* The framework calls main(request).
Call_main ==
    /\ pc = "idle"
    /\ \E req \in Requests : request' = req
    /\ entry' = "main"
    /\ pc' = "main_check_body"
    /\ UNCHANGED <<request_json, project, zone, ld, csadLocals, cs, wt, exc, result, clock, pending, outputs>>

\* main_CheckBody without the test: every body goes on to the JSON parse.
main_CheckBody_NoTest ==
    /\ pc = "main_check_body"
    /\ pc' = "main_get_json"
    /\ UNCHANGED <<entry, mainLocals, ld, csadLocals, cs, wt, exc, result, clock, pending, outputs>>

\* if not request.get_data(): return 400 "Empty request body"
main_CheckBody ==
    /\ pc = "main_check_body"
    /\ IF ~Truthy(get_data(request))
       THEN /\ responses' = Append(responses, Response(400, "error", "Empty request body"))
            /\ pc' = "done"
       ELSE /\ pc' = "main_get_json"
            /\ UNCHANGED responses
    /\ UNCHANGED <<entry, mainLocals, ld, csadLocals, cs, wt, exc, result, clock, pending, calls, log>>

\* request_json = request.get_json(silent=True)
\* if not request_json: return 400 "Invalid JSON payload"
main_GetJson ==
    /\ pc = "main_get_json"
    /\ request_json' = get_json(request)
    /\ IF ~Truthy(request_json')
       THEN /\ responses' = Append(responses, Response(400, "error", "Invalid JSON payload"))
            /\ pc' = "done"
       ELSE /\ pc' = "main_extract"
            /\ UNCHANGED responses
    /\ UNCHANGED <<entry, request, project, zone, ld, csadLocals, cs, wt, exc, result, clock, pending, calls, log>>

\* project = request_json.get("project"); zone = request_json.get("zone")
\* and the payload is logged.  Only a dict has .get: on any other value the
\* attribute lookup raises AttributeError, outside every try block.
main_Extract ==
    /\ pc = "main_extract"
    /\ IF request_json.t # "dict"
       THEN /\ exc' = <<Exc("AttributeError", "'" \o request_json.t \o "' object has no attribute 'get'")>>
            /\ pc' = "done"
            /\ UNCHANGED <<project, zone, log>>
       ELSE /\ project' = DictGet(request_json, "project")
            /\ zone' = DictGet(request_json, "zone")
            /\ log' = Append(log, Line("stderr", "Received request payload: project=" \o PyToStr(project')
                                                   \o ", zone=" \o PyToStr(zone')))
            /\ pc' = "main_validate"
            /\ UNCHANGED exc
    /\ UNCHANGED <<entry, request, request_json, ld, csadLocals, cs, wt, result, clock, pending, calls, responses>>

\* main_Validate with the 400 built but not returned: the handler goes on
\* to the orchestrator.
main_Validate_NoReturn ==
    /\ pc = "main_validate"
    /\ responses' = IF ~Truthy(project) \/ ~Truthy(zone)
                    THEN Append(responses, Response(400, "error", "Missing 'project' or 'zone' in request"))
                    ELSE responses
    /\ pc' = "csad_list_disks"
    /\ UNCHANGED <<entry, mainLocals, ld, csadLocals, cs, wt, exc, result, clock, pending, calls, log>>

\* if not project or not zone: return 400 "Missing ..."; otherwise enter the
\* try block and call create_snapshots_for_all_disks(project, zone).
main_Validate ==
    /\ pc = "main_validate"
    /\ IF ~Truthy(project) \/ ~Truthy(zone)
       THEN /\ responses' = Append(responses, Response(400, "error", "Missing 'project' or 'zone' in request"))
            /\ pc' = "done"
       ELSE /\ pc' = "csad_list_disks"
            /\ UNCHANGED responses
    /\ UNCHANGED <<entry, mainLocals, ld, csadLocals, cs, wt, exc, result, clock, pending, calls, log>>

\* The orchestrator returned: return 200.
main_Return ==
    /\ pc = "main_return"
    /\ responses' = Append(responses, Response(200, "message", "Snapshots created successfully"))
    /\ pc' = "done"
    /\ UNCHANGED <<entry, mainLocals, ld, csadLocals, cs, wt, exc, result, clock, pending, calls, log>>

\* main_Except with the exception's text left out of the response.
main_Except_NoText ==
    /\ pc = "main_except"
    /\ log' = Append(log, Line("stderr", "Snapshot creation failed: " \o exc[1].msg))
    /\ responses' = Append(responses, Response(500, "error", "Snapshot creation failed"))
    /\ exc' = NoExc
    /\ pc' = "done"
    /\ UNCHANGED <<entry, mainLocals, ld, csadLocals, cs, wt, result, clock, pending, calls>>

\* except Exception as e: log it and return 500 with its text.
main_Except ==
    /\ pc = "main_except"
    /\ log' = Append(log, Line("stderr", "Snapshot creation failed: " \o exc[1].msg))
    /\ responses' = Append(responses, Response(500, "error", "Snapshot creation failed: " \o exc[1].msg))
    /\ exc' = NoExc
    /\ pc' = "done"
    /\ UNCHANGED <<entry, mainLocals, ld, csadLocals, cs, wt, result, clock, pending, calls>>

\* ------------------------------------------------------------- list_disks

\* A provider call as recorded: the API, its arguments, how it ended ("ok"
\* or "raise") and, when it raised, the exception's message.
Call(api, args, outcome, error) == [api |-> api, args |-> args, outcome |-> outcome, error |-> error]

\* A direct call of list_disks(project, zone, region).
Call_list_disks ==
    /\ pc = "idle"
    /\ \E z \in {PyNone, PyStr(""), PyStr("z1")}, r \in {PyNone, PyStr("r1")} :
          ld' = [project |-> PyStr("p1"), zone |-> z, region |-> r]
    /\ entry' = "list_disks"
    /\ pc' = "ld_start"
    /\ UNCHANGED <<mainLocals, csadLocals, cs, wt, exc, result, clock, pending, outputs>>

\* list_disks returns the list l to its caller.
list_disks_Return(l) ==
    IF entry = "list_disks"
    THEN /\ result' = <<l>>
         /\ pc' = "done"
         /\ UNCHANGED disks
    ELSE /\ disks' = l
         /\ pc' = "csad_month"
         /\ UNCHANGED result

\* The list call on the client `api`, with the scope argument `scope`: it
\* returns some list of disks, or raises.
list_disks_List(api, scope) ==
    \/ \E l \in DiskLists :
          /\ calls' = Append(calls, Call(api, [project |-> ld.project, scope |-> scope], "ok", ""))
          /\ list_disks_Return(l)
          /\ UNCHANGED exc
    \/ \E m \in ListErrors :
          /\ calls' = Append(calls, Call(api, [project |-> ld.project, scope |-> scope], "raise", m))
          /\ exc' = <<Exc("GoogleAPICallError", m)>>
          /\ pc' = Unwind_list_disks
          /\ UNCHANGED <<disks, result>>

\* The body of list_disks: the zonal client if zone is truthy, else the
\* regional client if region is truthy, else ValueError.
list_disks_Body ==
    /\ pc = "ld_start"
    /\ IF Truthy(ld.zone)
       THEN list_disks_List("disks.list", ld.zone)
       ELSE IF Truthy(ld.region)
       THEN list_disks_List("regionDisks.list", ld.region)
       ELSE /\ exc' = <<Exc("ValueError", "Either zone or region must be provided.")>>
            /\ pc' = Unwind_list_disks
            /\ UNCHANGED <<disks, result, calls>>
    /\ UNCHANGED <<entry, mainLocals, ld, idx, current_month_name, current_year, cs, wt, clock, pending, log, responses>>

\* ------------------------------------------- create_snapshots_for_all_disks

\* strftime('%B').lower()
MonthName(m) ==
    CASE m = 1 -> "january" [] m = 2 -> "february" [] m = 3 -> "march" [] m = 4 -> "april"
      [] m = 5 -> "may" [] m = 6 -> "june" [] m = 7 -> "july" [] m = 8 -> "august"
      [] m = 9 -> "september" [] m = 10 -> "october" [] m = 11 -> "november" [] m = 12 -> "december"

\* f"{disk.name}-{current_month_name}-{current_year}-patching"
SnapshotName(disk, month, year) == disk \o "-" \o month \o "-" \o year \o "-patching"

\* print(f"Snapshot '{snapshot_name}' created successfully for disk '{disk.name}'.")
CreatedText(snapshot_name, disk) ==
    Line("stdout", "Snapshot '" \o snapshot_name \o "' created successfully for disk '" \o disk \o "'.")

\* print(f"Snapshot creation failed for disk '{disk.name}': {str(e)}")
FailedText(disk, msg) == Line("stdout", "Snapshot creation failed for disk '" \o disk \o "': " \o msg)

\* disks = list_disks(project, zone=zone)
csad_ListDisks ==
    /\ pc = "csad_list_disks"
    /\ ld' = [project |-> project, zone |-> zone, region |-> PyNone]
    /\ pc' = "ld_start"
    /\ UNCHANGED <<entry, mainLocals, csadLocals, cs, wt, exc, result, clock, pending, outputs>>

\* current_month_name = datetime.now().strftime('%B').lower()
csad_ReadMonth ==
    /\ pc = "csad_month"
    /\ current_month_name' = MonthName(clock.month)
    /\ pc' = "csad_year"
    /\ UNCHANGED <<entry, mainLocals, ld, disks, idx, current_year, cs, wt, exc, result, clock, pending, outputs>>

\* current_year = datetime.now().strftime('%Y'); the for loop starts.
csad_ReadYear ==
    /\ pc = "csad_year"
    /\ current_year' = IntToStr(clock.year)
    /\ idx' = 1
    /\ pc' = "csad_for"
    /\ UNCHANGED <<entry, mainLocals, ld, disks, current_month_name, cs, wt, exc, result, clock, pending, outputs>>

\* for disk in disks: the next disk's create_snapshot(project, disk.name,
\* snapshot_name, zone=zone) is called; with no disk left the function returns.
csad_For ==
    /\ pc = "csad_for"
    /\ IF idx > Len(disks)
       THEN /\ pc' = "main_return"
            /\ UNCHANGED cs
       ELSE /\ cs' = [project |-> project, disk_name |-> disks[idx],
                      snapshot_name |-> SnapshotName(disks[idx], current_month_name, current_year),
                      zone |-> zone, region |-> PyNone, location |-> PyNone, disk_project |-> PyNone,
                      self_link |-> ""]
            /\ pc' = "cs_validate"
    /\ UNCHANGED <<entry, mainLocals, ld, csadLocals, wt, exc, result, clock, pending, outputs>>

\* print(f"Snapshot '{snapshot_name}' created successfully for disk '{disk.name}'.")
csad_PrintCreated ==
    /\ pc = "csad_created"
    /\ log' = Append(log, CreatedText(cs.snapshot_name, disks[idx]))
    /\ idx' = idx + 1
    /\ pc' = "csad_for"
    /\ UNCHANGED <<entry, mainLocals, ld, disks, current_month_name, current_year, cs, wt, exc, result, clock,
                   pending, calls, responses>>

\* csad_Except with the loop left at the first failure (a `break` in the
\* except clause): the function returns without the remaining disks.
csad_Except_Break ==
    /\ pc = "csad_except"
    /\ log' = Append(log, FailedText(disks[idx], exc[1].msg))
    /\ exc' = NoExc
    /\ pc' = "main_return"
    /\ UNCHANGED <<entry, mainLocals, ld, csadLocals, cs, wt, result, clock, pending, calls, responses>>

\* csad_Except with the exception raised again after it is logged: it
\* leaves the orchestrator and reaches main's except clause.
csad_Except_Reraise ==
    /\ pc = "csad_except"
    /\ log' = Append(log, FailedText(disks[idx], exc[1].msg))
    /\ pc' = "main_except"
    /\ UNCHANGED <<entry, mainLocals, ld, csadLocals, cs, wt, exc, result, clock, pending, calls, responses>>

\* csad_Except with an empty handler (`pass`): the failure is swallowed
\* without a line for the disk.
csad_Except_Silent ==
    /\ pc = "csad_except"
    /\ exc' = NoExc
    /\ idx' = idx + 1
    /\ pc' = "csad_for"
    /\ UNCHANGED <<entry, mainLocals, ld, disks, current_month_name, current_year, cs, wt, result, clock,
                   pending, outputs>>

\* except Exception as e: print(f"Snapshot creation failed for disk ...")
\* and the loop goes on with the next disk.
csad_Except ==
    /\ pc = "csad_except"
    /\ log' = Append(log, FailedText(disks[idx], exc[1].msg))
    /\ exc' = NoExc
    /\ idx' = idx + 1
    /\ pc' = "csad_for"
    /\ UNCHANGED <<entry, mainLocals, ld, disks, current_month_name, current_year, cs, wt, result, clock,
                   pending, calls, responses>>

\* -------------------------------------------------------- create_snapshot

\* The timeout parameter's default, in seconds.
DefaultTimeout == 300

\* An operation the provider has not resolved yet.
PendingOperation(name) == Operation(name, "pending", 0, "", FALSE, 0)

\* The disk resource's self_link, as the provider reports it.
SelfLink(diskProject, scopeKind, scope, disk) ==
    "projects/" \o PyToStr(diskProject) \o "/" \o scopeKind \o "/" \o PyToStr(scope) \o "/disks/" \o disk

\* A direct call of create_snapshot, with any combination of the keyword
\* arguments zone, region, location and disk_project.
Call_create_snapshot ==
    /\ pc = "idle"
    /\ \E z \in {PyNone, PyStr(""), PyStr("z1")}, r \in {PyNone, PyStr("r1")},
          l \in {PyNone, PyStr("us")}, dp \in {PyNone, PyStr("p2")} :
          cs' = [project |-> PyStr("p1"), disk_name |-> DiskName(1), snapshot_name |-> "snap1",
                 zone |-> z, region |-> r, location |-> l, disk_project |-> dp, self_link |-> ""]
    /\ entry' = "create_snapshot"
    /\ pc' = "cs_validate"
    /\ UNCHANGED <<mainLocals, ld, csadLocals, wt, exc, result, clock, pending, outputs>>

\* cs_Validate without the second check (zone and region both given).
cs_Validate_NeitherOnly ==
    /\ pc = "cs_validate"
    /\ IF IsNone(cs.zone) /\ IsNone(cs.region)
       THEN /\ exc' = <<Exc("RuntimeError", "You need to specify zone or region for this function to work.")>>
            /\ pc' = Unwind_create_snapshot
            /\ UNCHANGED cs
       ELSE /\ cs' = [cs EXCEPT !.disk_project = IF IsNone(@) THEN cs.project ELSE @]
            /\ pc' = "cs_get_disk"
            /\ UNCHANGED exc
    /\ UNCHANGED <<entry, mainLocals, ld, csadLocals, wt, result, clock, pending, outputs>>

\* The zone/region checks, then disk_project's default.
cs_Validate ==
    /\ pc = "cs_validate"
    /\ IF IsNone(cs.zone) /\ IsNone(cs.region)
       THEN /\ exc' = <<Exc("RuntimeError", "You need to specify zone or region for this function to work.")>>
            /\ pc' = Unwind_create_snapshot
            /\ UNCHANGED cs
       ELSE IF ~IsNone(cs.zone) /\ ~IsNone(cs.region)
       THEN /\ exc' = <<Exc("RuntimeError", "You can't set both zone and region parameters.")>>
            /\ pc' = Unwind_create_snapshot
            /\ UNCHANGED cs
       ELSE /\ cs' = [cs EXCEPT !.disk_project = IF IsNone(@) THEN cs.project ELSE @]
            /\ pc' = "cs_get_disk"
            /\ UNCHANGED exc
    /\ UNCHANGED <<entry, mainLocals, ld, csadLocals, wt, result, clock, pending, outputs>>

\* cs_GetDisk with a retry: when the call raises it is issued again.
cs_GetDisk_Retry ==
    /\ pc = "cs_get_disk"
    /\ LET zonal == ~IsNone(cs.zone)
           api == IF zonal THEN "disks.get" ELSE "regionDisks.get"
           scope == IF zonal THEN cs.zone ELSE cs.region
           args == [project |-> cs.disk_project, scope |-> scope, disk |-> cs.disk_name]
       IN  \/ /\ calls' = Append(calls, Call(api, args, "ok", ""))
              /\ cs' = [cs EXCEPT !.self_link = SelfLink(cs.disk_project, IF zonal THEN "zones" ELSE "regions",
                                                         scope, cs.disk_name)]
              /\ pc' = "cs_insert"
           \/ /\ Len(calls) < 4
              /\ calls' = Append(calls, Call(api, args, "raise", "404 disk not found"))
              /\ pc' = "cs_get_disk"
              /\ UNCHANGED cs
    /\ UNCHANGED <<entry, mainLocals, ld, csadLocals, wt, exc, result, clock, pending, log, responses>>

\* disk = disk_client.get(...) on the zonal client if zone is not None, else
\* on the regional client: the disk resource, or the call raises.
cs_GetDisk ==
    /\ pc = "cs_get_disk"
    /\ LET zonal == ~IsNone(cs.zone)
           api == IF zonal THEN "disks.get" ELSE "regionDisks.get"
           scope == IF zonal THEN cs.zone ELSE cs.region
           args == [project |-> cs.disk_project, scope |-> scope, disk |-> cs.disk_name]
       IN  \/ /\ calls' = Append(calls, Call(api, args, "ok", ""))
              /\ cs' = [cs EXCEPT !.self_link = SelfLink(cs.disk_project, IF zonal THEN "zones" ELSE "regions",
                                                         scope, cs.disk_name)]
              /\ pc' = "cs_insert"
              /\ UNCHANGED exc
           \/ /\ calls' = Append(calls, Call(api, args, "raise", "404 disk not found"))
              /\ exc' = <<Exc("NotFound", "404 disk not found")>>
              /\ pc' = Unwind_create_snapshot
              /\ UNCHANGED cs
    /\ UNCHANGED <<entry, mainLocals, ld, csadLocals, wt, result, clock, pending, log, responses>>

\* cs_Insert without the wait: the operation is started and the function
\* goes straight on to the re-fetch.
cs_Insert_NoWait ==
    /\ pc = "cs_insert"
    /\ LET snapshot == [source_disk |-> cs.self_link, name |-> cs.snapshot_name,
                        storage_locations |-> IF Truthy(cs.location) THEN <<cs.location.s>> ELSE <<>>]
           args == [project |-> cs.project, snapshot_resource |-> snapshot]
           name == "operation-" \o cs.snapshot_name
       IN  \/ /\ calls' = Append(calls, Call("snapshots.insert", args, "ok", ""))
              /\ pending' = pending \cup {name}
              /\ wt' = [operation |-> PendingOperation(name),
                        verbose_name |-> "snapshot creation for " \o cs.disk_name,
                        timeout |-> DefaultTimeout]
              /\ pc' = "cs_get_snapshot"
              /\ UNCHANGED exc
           \/ /\ calls' = Append(calls, Call("snapshots.insert", args, "raise", "409 snapshot already exists"))
              /\ exc' = <<Exc("Conflict", "409 snapshot already exists")>>
              /\ pc' = Unwind_create_snapshot
              /\ UNCHANGED <<pending, wt>>
    /\ UNCHANGED <<entry, mainLocals, ld, csadLocals, cs, result, clock, log, responses>>

\* The snapshot resource is built and snapshot_client.insert(...) is called:
\* it returns the operation (pending at the provider), or raises.  With the
\* operation, wait_for_extended_operation(operation, f"snapshot creation for
\* {disk_name}") is called.
cs_Insert ==
    /\ pc = "cs_insert"
    /\ LET snapshot == [source_disk |-> cs.self_link, name |-> cs.snapshot_name,
                        storage_locations |-> IF Truthy(cs.location) THEN <<cs.location.s>> ELSE <<>>]
           args == [project |-> cs.project, snapshot_resource |-> snapshot]
           name == "operation-" \o cs.snapshot_name
       IN  \/ /\ calls' = Append(calls, Call("snapshots.insert", args, "ok", ""))
              /\ pending' = pending \cup {name}
              /\ wt' = [operation |-> PendingOperation(name),
                        verbose_name |-> "snapshot creation for " \o cs.disk_name,
                        timeout |-> DefaultTimeout]
              /\ pc' = "w_result"
              /\ UNCHANGED exc
           \/ /\ calls' = Append(calls, Call("snapshots.insert", args, "raise", "409 snapshot already exists"))
              /\ exc' = <<Exc("Conflict", "409 snapshot already exists")>>
              /\ pc' = Unwind_create_snapshot
              /\ UNCHANGED <<pending, wt>>
    /\ UNCHANGED <<entry, mainLocals, ld, csadLocals, cs, result, clock, log, responses>>

\* return snapshot_client.get(project=project, snapshot=snapshot_name)
cs_GetSnapshot ==
    /\ pc = "cs_get_snapshot"
    /\ LET args == [project |-> cs.project, snapshot |-> cs.snapshot_name]
       IN  \/ /\ calls' = Append(calls, Call("snapshots.get", args, "ok", ""))
              /\ IF entry = "create_snapshot"
                 THEN /\ result' = <<[name |-> cs.snapshot_name, source_disk |-> cs.self_link]>>
                      /\ pc' = "done"
                 ELSE /\ pc' = "csad_created"
                      /\ UNCHANGED result
              /\ UNCHANGED exc
           \/ /\ calls' = Append(calls, Call("snapshots.get", args, "raise", "503 snapshot get failed"))
              /\ exc' = <<Exc("ServiceUnavailable", "503 snapshot get failed")>>
              /\ pc' = Unwind_create_snapshot
              /\ UNCHANGED result
    /\ UNCHANGED <<entry, mainLocals, ld, csadLocals, cs, wt, clock, pending, log, responses>>

\* -------------------------------------------- wait_for_extended_operation

\* A direct call of wait_for_extended_operation(operation), with the
\* defaults of verbose_name and timeout.
Call_wait ==
    /\ pc = "idle"
    /\ wt' = [operation |-> PendingOperation("operation-1"), verbose_name |-> "operation", timeout |-> DefaultTimeout]
    /\ pending' = {"operation-1"}
    /\ entry' = "wait_for_extended_operation"
    /\ pc' = "w_result"
    /\ UNCHANGED <<mainLocals, ld, csadLocals, cs, exc, result, clock, outputs>>

\* f"Error during {verbose_name}: [Code: {operation.error_code}]: {operation.error_message}"
ErrorLine(verbose_name, op) ==
    "Error during " \o verbose_name \o ": [Code: " \o IntToStr(op.error_code) \o "]: " \o op.error_message

\* f"Operation ID: {operation.name}"
OperationIdLine(op) == "Operation ID: " \o op.name

\* The lines printed for an operation's warnings: the header, then one line
\* per warning.
WarningLines(verbose_name, op) ==
    <<Line("stderr", "Warnings during " \o verbose_name \o ":\n")>>
    \o [i \in 1..Len(op.warnings) |->
          Line("stderr", " - " \o op.warnings[i].code \o ": " \o op.warnings[i].message)]

\* result = operation.result(timeout=timeout), inside the try block: the
\* operation resolves some way; the call returns, or raises into the except
\* clause.  An operation that timed out, or whose polling failed, is still
\* pending at the provider.
wait_Result ==
    /\ pc = "w_result"
    /\ \E op \in Operations(wt.operation.name) :
          /\ wt' = [wt EXCEPT !.operation = op]
          /\ calls' = Append(calls, Call("operation.result", [operation |-> op.name, timeout |-> wt.timeout],
                                         IF op.wait = "returns" THEN "ok" ELSE "raise",
                                         IF op.wait = "returns" THEN "" ELSE ResultException(op).msg))
          /\ pending' = IF op.wait = "returns" \/ op.error_code # 0 THEN pending \ {op.name} ELSE pending
          /\ IF op.wait = "returns"
             THEN /\ pc' = "w_check_error"
                  /\ UNCHANGED exc
             ELSE /\ exc' = <<ResultException(op)>>
                  /\ pc' = "w_except"
    /\ UNCHANGED <<entry, mainLocals, ld, csadLocals, cs, result, clock, log, responses>>

\* wait_Except without the `raise`: the failure is logged and swallowed,
\* and the function returns None.
wait_Except_Swallow ==
    /\ pc = "w_except"
    /\ log' = Append(log, Line("stderr", "Operation failed: " \o exc[1].msg))
    /\ exc' = NoExc
    /\ IF entry = "wait_for_extended_operation"
       THEN /\ result' = <<PyNone>>
            /\ pc' = "done"
       ELSE /\ pc' = "cs_get_snapshot"
            /\ UNCHANGED result
    /\ UNCHANGED <<entry, mainLocals, ld, csadLocals, cs, wt, clock, pending, calls, responses>>

\* except Exception as e: print(f"Operation failed: {str(e)}"); raise
wait_Except ==
    /\ pc = "w_except"
    /\ log' = Append(log, Line("stderr", "Operation failed: " \o exc[1].msg))
    /\ pc' = Unwind_wait
    /\ UNCHANGED <<entry, mainLocals, ld, csadLocals, cs, wt, exc, result, clock, pending, calls, responses>>

\* wait_CheckError without the `raise`: the error is printed and the
\* function goes on to the warnings and returns.
wait_CheckError_NoRaise ==
    /\ pc = "w_check_error"
    /\ LET op == wt.operation
       IN  log' = IF op.error_code # 0
                  THEN log \o <<Line("stderr", ErrorLine(wt.verbose_name, op)),
                                Line("stderr", OperationIdLine(op))>>
                  ELSE log
    /\ pc' = "w_warnings"
    /\ UNCHANGED <<entry, mainLocals, ld, csadLocals, cs, wt, exc, result, clock, pending, calls, responses>>

\* if operation.error_code: print the error and the operation's id, then
\* raise operation.exception() or RuntimeError(operation.error_message)
wait_CheckError ==
    /\ pc = "w_check_error"
    /\ LET op == wt.operation
       IN  IF op.error_code # 0
           THEN /\ log' = log \o <<Line("stderr", ErrorLine(wt.verbose_name, op)),
                                   Line("stderr", OperationIdLine(op))>>
                /\ exc' = IF OperationException(op) # NoExc THEN OperationException(op)
                          ELSE <<Exc("RuntimeError", op.error_message)>>
                /\ pc' = Unwind_wait
           ELSE /\ pc' = "w_warnings"
                /\ UNCHANGED <<log, exc>>
    /\ UNCHANGED <<entry, mainLocals, ld, csadLocals, cs, wt, result, clock, pending, calls, responses>>

\* wait_Return with warnings treated as fatal: they are printed and the
\* function raises instead of returning.
wait_Return_WarningsFatal ==
    /\ pc = "w_warnings"
    /\ log' = IF Len(wt.operation.warnings) > 0 THEN log \o WarningLines(wt.verbose_name, wt.operation) ELSE log
    /\ IF Len(wt.operation.warnings) > 0
       THEN /\ exc' = <<Exc("RuntimeError", "operation finished with warnings")>>
            /\ pc' = Unwind_wait
            /\ UNCHANGED result
       ELSE /\ IF entry = "wait_for_extended_operation"
               THEN /\ result' = <<PyNone>>
                    /\ pc' = "done"
               ELSE /\ pc' = "cs_get_snapshot"
                    /\ UNCHANGED result
            /\ UNCHANGED exc
    /\ UNCHANGED <<entry, mainLocals, ld, csadLocals, cs, wt, clock, pending, calls, responses>>

\* if operation.warnings: print them; return result
wait_Return ==
    /\ pc = "w_warnings"
    /\ log' = IF Len(wt.operation.warnings) > 0 THEN log \o WarningLines(wt.verbose_name, wt.operation) ELSE log
    /\ IF entry = "wait_for_extended_operation"
       THEN /\ result' = <<PyNone>>
            /\ pc' = "done"
       ELSE /\ pc' = "cs_get_snapshot"
            /\ UNCHANGED result
    /\ UNCHANGED <<entry, mainLocals, ld, csadLocals, cs, wt, exc, clock, pending, calls, responses>>

\* ------------------------------------------------------------ environment

\* Months elapsed since the call began.
Elapsed == (clock.year - 2024) * 12 + clock.month - 12

\* The wall clock passes into the next month.
Tick ==
    /\ pc # "done"
    /\ Elapsed < MaxClock
    /\ clock' = IF clock.month = 12 THEN [year |-> clock.year + 1, month |-> 1]
                ELSE [clock EXCEPT !.month = @ + 1]
    /\ UNCHANGED <<entry, pc, mainLocals, ld, csadLocals, cs, wt, exc, result, pending, outputs>>

\* The provider finishes an operation nobody is waiting on any more.
ProviderResolves ==
    /\ pc \notin {"done", "w_result"}
    /\ \E name \in pending : pending' = pending \ {name}
    /\ UNCHANGED <<entry, pc, mainLocals, ld, csadLocals, cs, wt, exc, result, clock, outputs>>

\* ---------------------------------------------------------- specification

Next ==
    \/ Call_main
    \/ main_CheckBody
    \/ main_GetJson
    \/ main_Extract
    \/ main_Validate
    \/ main_Return
    \/ main_Except
    \/ Call_list_disks
    \/ list_disks_Body
    \/ csad_ListDisks
    \/ csad_ReadMonth
    \/ csad_ReadYear
    \/ csad_For
    \/ csad_PrintCreated
    \/ csad_Except
    \/ Call_create_snapshot
    \/ cs_Validate
    \/ cs_GetDisk
    \/ cs_Insert
    \/ cs_GetSnapshot
    \/ Call_wait
    \/ wait_Result
    \/ wait_Except
    \/ wait_CheckError
    \/ wait_Return
    \/ Tick
    \/ ProviderResolves

Spec == Init /\ [][Next]_vars

\* The steps of the program itself, without the environment's.
Program ==
    \/ main_CheckBody \/ main_GetJson \/ main_Extract \/ main_Validate \/ main_Return \/ main_Except
    \/ list_disks_Body
    \/ csad_ListDisks \/ csad_ReadMonth \/ csad_ReadYear \/ csad_For \/ csad_PrintCreated \/ csad_Except
    \/ cs_Validate \/ cs_GetDisk \/ cs_Insert \/ cs_GetSnapshot
    \/ wait_Result \/ wait_Except \/ wait_CheckError \/ wait_Return

\* The program under the scheduling it runs with: one thread that executes
\* its next statement whenever it has one, every provider call and every
\* wait on an operation eventually returning, raising or timing out.
FairSpec == Spec /\ WF_vars(Program)

\* ------------------------------------------------------------ properties

Range(s) == {s[i] : i \in DOMAIN s}

\* The calls of one API, in order.
CallsOf(api) == SelectSeq(calls, LAMBDA c : c.api = api)

\* The disks whose resource create_snapshot has asked for, in order.
FetchedDisks == [i \in 1..Len(CallsOf("disks.get")) |-> CallsOf("disks.get")[i].args.disk]

ListingReturned == \E c \in Range(calls) : c.api = "disks.list" /\ c.outcome = "ok"
ListingRaised == \E c \in Range(calls) : c.api = "disks.list" /\ c.outcome = "raise"

\* The line the orchestrator prints for a disk whose snapshot was created.
CreatedLine(d) == CreatedText(SnapshotName(d, current_month_name, current_year), d)
IsFailedLine(l) == \E d \in DiskNames, c \in Range(calls) : c.outcome = "raise" /\ l = FailedText(d, c.error)

OkResponse == Response(200, "message", "Snapshots created successfully")

\* C1: partial-failure isolation.  When main has run to its end on a
\* listing that returned, create_snapshot was invoked for every listed disk,
\* in the listing's order (each invocation's first act is the disk fetch),
\* whatever raised while an earlier disk was processed.
C1_PartialFailureIsolation ==
    (entry = "main" /\ pc = "done" /\ ListingReturned) => FetchedDisks = disks

\* The first of two disks failed at its disk fetch and the second was
\* fetched all the same.
C1_Witness ==
    /\ entry = "main" /\ pc = "done" /\ Len(disks) = 2 /\ Len(calls) >= 3
    /\ calls[2].api = "disks.get" /\ calls[2].args.disk = disks[1] /\ calls[2].outcome = "raise"
    /\ calls[3].api = "disks.get" /\ calls[3].args.disk = disks[2]

\* C2: a validated request whose listing returned is answered 200
\* "Snapshots created successfully", and with nothing else, whatever the
\* per-disk outcomes were.
C2_BatchAlways200 ==
    (entry = "main" /\ pc = "done" /\ Truthy(project) /\ Truthy(zone) /\ ListingReturned)
        => responses = <<OkResponse>>

\* Two disks were listed, the creation failed for both, and the answer is 200.
C2_Witness ==
    /\ entry = "main" /\ pc = "done" /\ Len(disks) = 2
    /\ Len(SelectSeq(log, IsFailedLine)) = 2
    /\ \A d \in DiskNames : CreatedLine(d) \notin Range(log)
    /\ responses = <<OkResponse>>

\* C3: when the listing raises with message m, main answers 500
\* "Snapshot creation failed: m" and the listing is the only provider call
\* of the request; and no call other than the listing, when it raises,
\* leads to a 500.
C3_ListingFailure500 ==
    (entry = "main" /\ pc = "done") =>
        /\ \A c \in Range(calls) :
              (c.api = "disks.list" /\ c.outcome = "raise")
                  => /\ responses = <<Response(500, "error", "Snapshot creation failed: " \o c.error)>>
                     /\ Len(calls) = 1
        /\ (\E r \in Range(responses) : r.status = 500) => ListingRaised
        /\ (\E c \in Range(calls) : c.api # "disks.list" /\ c.outcome = "raise")
              => \A r \in Range(responses) : r.status # 500

\* The listing raised "quota exceeded" and main answered 500 with that text.
C3_Witness ==
    /\ entry = "main" /\ pc = "done"
    /\ calls = <<Call("disks.list", [project |-> PyStr("p1"), scope |-> PyStr("z1")], "raise", "quota exceeded")>>
    /\ responses = <<Response(500, "error", "Snapshot creation failed: quota exceeded")>>


\* C4: a request whose non-empty body is not JSON, or is JSON but not an
\* object, is answered 400 "Invalid JSON payload".
C4_NonObjectBody400 ==
    (/\ entry = "main" /\ pc = "done"
     /\ \/ request.syntax = "garbage"
        \/ request.syntax = "json" /\ request.value.t # "dict")
        => responses = <<Response(400, "error", "Invalid JSON payload")>>

\* A key of the body's object is absent or holds the empty string.
AbsentOrEmpty(obj, key) == key \notin obj.keys \/ DictGet(obj, key) = PyStr("")

\* C5: a JSON request whose body is an object in which project or zone is
\* absent or the empty string (the empty object included) is answered 400
\* "Missing 'project' or 'zone' in request".
C5_MissingField400 ==
    (/\ entry = "main" /\ pc = "done"
     /\ request.syntax = "json" /\ request.is_json /\ request.value.t = "dict"
     /\ AbsentOrEmpty(request.value, "project") \/ AbsentOrEmpty(request.value, "zone"))
        => responses = <<Response(400, "error", "Missing 'project' or 'zone' in request")>>

\* wait_for_extended_operation has left its body (returned or raised).
WaitOver == wt # NoArgs /\ pc \notin {"w_result", "w_except", "w_check_error", "w_warnings"}

\* C6: once wait_for_extended_operation is over for an operation whose
\* error_code is set, it has raised and returned nothing, and the error
\* line (code and message) and the operation's id are in the log; also when
\* operation.result() itself raised.
C6_ErrorCodeLogged ==
    (WaitOver /\ wt.operation.error_code # 0) =>
        /\ Line("stderr", ErrorLine(wt.verbose_name, wt.operation)) \in Range(log)
        /\ Line("stderr", OperationIdLine(wt.operation)) \in Range(log)
        /\ entry = "wait_for_extended_operation" => (result = <<>> /\ exc # NoExc)

\* The statements of the orchestrator and of everything it calls, and the
\* two places of main that follow its call.
ProcessingPcs ==
    {"csad_list_disks", "ld_start", "csad_month", "csad_year", "csad_for", "csad_created", "csad_except",
     "cs_validate", "cs_get_disk", "cs_insert", "cs_get_snapshot",
     "w_result", "w_except", "w_check_error", "w_warnings", "main_return", "main_except"}

\* C7: a handled request ends with exactly one response, one of the three
\* 400s, the 200 or a 500; and main is in Processing only with a non-empty
\* body that parsed and a non-empty project and zone.
C7_OneResponse ==
    /\ (entry = "main" /\ pc = "done") =>
          /\ Len(responses) = 1
          /\ \/ responses[1] \in {Response(400, "error", "Empty request body"),
                                  Response(400, "error", "Invalid JSON payload"),
                                  Response(400, "error", "Missing 'project' or 'zone' in request"),
                                  OkResponse}
             \/ responses[1].status = 500
    /\ (entry = "main" /\ pc \in ProcessingPcs) =>
          /\ Truthy(get_data(request))
          /\ Truthy(request_json) /\ request_json = get_json(request)
          /\ Truthy(project) /\ Truthy(zone)

\* C8: create_snapshot called with zone and region both set, or both unset,
\* makes no provider call and returns nothing: it ends with a RuntimeError
\* raised by its first statements.
C8_ConfigErrorBeforeCalls ==
    (entry = "create_snapshot" /\ (IsNone(cs.zone) <=> IsNone(cs.region))) =>
        /\ calls = <<>>
        /\ result = <<>>
        /\ pc \in {"cs_validate", "done"}
        /\ pc = "done" => (exc # NoExc /\ exc[1].type = "RuntimeError")

\* create_snapshot was called with both zone and region and has raised.
C8_Witness ==
    /\ entry = "create_snapshot" /\ pc = "done"
    /\ ~IsNone(cs.zone) /\ ~IsNone(cs.region)
    /\ exc = <<Exc("RuntimeError", "You can't set both zone and region parameters.")>>

\* C9: when operation.result() raises (a timeout included),
\* wait_for_extended_operation prints "Operation failed: ..." to stderr and
\* raises that same exception, returning nothing and waiting once; in a
\* batch the orchestrator prints the failure for that disk with the same
\* text, the operation is waited on once, no snapshot re-fetch follows, and
\* every listed disk is still processed.
C9_WaitFailurePropagates ==
    /\ (entry = "wait_for_extended_operation" /\ pc = "done" /\ wt.operation.wait # "returns") =>
          /\ exc = <<ResultException(wt.operation)>>
          /\ result = <<>>
          /\ log = <<Line("stderr", "Operation failed: " \o ResultException(wt.operation).msg)>>
          /\ Len(calls) = 1
    /\ (entry = "main" /\ pc = "done") =>
          \A k \in DOMAIN calls :
              (calls[k].api = "operation.result" /\ calls[k].outcome = "raise") =>
                  /\ Line("stderr", "Operation failed: " \o calls[k].error) \in Range(log)
                  /\ FailedText(calls[k - 2].args.disk, calls[k].error) \in Range(log)
                  /\ CreatedLine(calls[k - 2].args.disk) \notin Range(log)
                  /\ Cardinality({j \in DOMAIN calls : /\ calls[j].api = "operation.result"
                                                       /\ calls[j].args = calls[k].args}) = 1
                  /\ k < Len(calls) => calls[k + 1].api = "disks.get"
                  /\ FetchedDisks = disks
                  /\ responses = <<OkResponse>>

\* In a batch of two disks the wait on the first disk's operation timed
\* out, and the second disk was processed next.
C9_Witness ==
    /\ entry = "main" /\ pc = "done" /\ Len(disks) = 2 /\ Len(calls) >= 5
    /\ calls[4].api = "operation.result" /\ calls[4].outcome = "raise"
    /\ calls[4].error = "Operation did not complete within the designated timeout"
    /\ calls[5].api = "disks.get" /\ calls[5].args.disk = disks[2]

\* In a batch, the disk just processed had its operation resolve with no
\* error code and with warnings.
WarnedDisk ==
    /\ entry = "main" /\ pc = "csad_for" /\ idx > 1
    /\ wt # NoArgs
    /\ cs.disk_name = disks[idx - 1]
    /\ wt.operation.name = "operation-" \o cs.snapshot_name
    /\ wt.operation.wait = "returns" /\ wt.operation.error_code = 0 /\ Len(wt.operation.warnings) >= 1

\* The lines ls are in the log, one after the other.
Logged(ls) == \E i \in 0..(Len(log) - Len(ls)) : SubSeq(log, i + 1, i + Len(ls)) = ls

\* C10 as stated: such a disk is reported as created successfully.
C10_WarningsReportedSuccessful ==
    WarnedDisk =>
        /\ Logged(WarningLines(wt.verbose_name, wt.operation))
        /\ log[Len(log)] = CreatedLine(disks[idx - 1])

\* C10 as amended: with no error code and one or more warnings,
\* wait_for_extended_operation logs each warning and returns without
\* raising, so the re-fetch is issued; the disk is reported as created
\* successfully if the re-fetch returns, and as failed if it raises.
C10_WarningsNonFatal ==
    /\ WarnedDisk =>
          /\ Logged(WarningLines(wt.verbose_name, wt.operation))
          /\ calls[Len(calls)].api = "snapshots.get"
          /\ calls[Len(calls) - 1].api = "operation.result" /\ calls[Len(calls) - 1].outcome = "ok"
          /\ log[Len(log)] = IF calls[Len(calls)].outcome = "ok"
                             THEN CreatedLine(disks[idx - 1])
                             ELSE FailedText(disks[idx - 1], calls[Len(calls)].error)
    /\ (/\ entry = "wait_for_extended_operation" /\ pc = "done"
        /\ wt.operation.wait = "returns" /\ wt.operation.error_code = 0 /\ Len(wt.operation.warnings) >= 1) =>
          /\ result = <<PyNone>> /\ exc = NoExc
          /\ log = WarningLines(wt.verbose_name, wt.operation)

\* A disk whose operation carried two warnings, both logged, was reported
\* as created successfully.
C10_Witness ==
    /\ WarnedDisk
    /\ Len(wt.operation.warnings) = 2
    /\ Line("stderr", " - W2: warning 2") \in Range(log)
    /\ log[Len(log)] = CreatedLine(disks[idx - 1])


\* The wall clock e months after the call began.
ClockAt(e) == [year |-> 2024 + (11 + e) \div 12, month |-> ((11 + e) % 12) + 1]

\* C11: the snapshot name passed to create_snapshot in a batch is
\* "<disk>-<month>-<year>-patching" with the month and the year of one and
\* the same instant of the orchestrator's run, also when the clock advances
\* between its two reads.
C11_NameFromOneInstant ==
    (entry = "main" /\ cs # NoArgs) =>
        \E e \in 0..Elapsed :
            cs.snapshot_name = SnapshotName(cs.disk_name, MonthName(ClockAt(e).month), IntToStr(ClockAt(e).year))

\* C12: a request with an empty body is answered 400 "Empty request body"
\* by main's first statement: the JSON parse and the field extraction are
\* never reached, nothing is logged and no provider call is made.
C12_EmptyBody400 ==
    (entry = "main" /\ request.syntax = "empty") =>
        /\ pc \in {"main_check_body", "done"}
        /\ pc = "done" => responses = <<Response(400, "error", "Empty request body")>>
        /\ request_json = PyNone /\ project = PyNone /\ zone = PyNone
        /\ log = <<>> /\ calls = <<>> /\ exc = NoExc

\* An empty body sent with a JSON mimetype was answered 400 "Empty request body".
C12_Witness ==
    /\ entry = "main" /\ pc = "done"
    /\ request.syntax = "empty" /\ request.is_json
    /\ responses = <<Response(400, "error", "Empty request body")>>

\* C13: no retries.  No provider call is issued twice: the calls of a
\* request differ pairwise in their API or their arguments (the disk, the
\* snapshot, the operation), and there is at most one listing call.
C13_NoRetries ==
    /\ \A i, j \in DOMAIN calls : (calls[i].api = calls[j].api /\ calls[i].args = calls[j].args) => i = j
    /\ Len(SelectSeq(calls, LAMBDA c : c.api \in {"disks.list", "regionDisks.list"})) <= 1
    /\ entry = "main" =>
          \A d \in DiskNames :
              /\ Len(SelectSeq(calls, LAMBDA c : c.api = "disks.get" /\ c.args.disk = d)) <= 1
              /\ Len(SelectSeq(calls, LAMBDA c : c.api = "snapshots.insert"
                        /\ c.args.snapshot_resource.name = SnapshotName(d, current_month_name, current_year))) <= 1
              /\ Len(SelectSeq(calls, LAMBDA c : c.api = "operation.result"
                        /\ c.args.operation = "operation-" \o SnapshotName(d, current_month_name, current_year))) <= 1
              /\ Len(SelectSeq(calls, LAMBDA c : c.api = "snapshots.get"
                        /\ c.args.snapshot = SnapshotName(d, current_month_name, current_year))) <= 1

\* A batch of two disks ended with the first disk's wait timed out and the
\* second disk's fetch failed: five calls, none repeated.
C13_Witness ==
    /\ entry = "main" /\ pc = "done" /\ Len(disks) = 2 /\ Len(calls) = 5
    /\ calls[4].api = "operation.result" /\ calls[4].outcome = "raise"
    /\ calls[5].api = "disks.get" /\ calls[5].outcome = "raise"


DiskGets == {"disks.get", "regionDisks.get"}

\* C14: within create_snapshot the calls come in the order disk fetch,
\* snapshot insert, operation wait, snapshot re-fetch, each issued only
\* after the one before it succeeded: nothing of the same disk follows a
\* call that raised, no re-fetch is issued for an operation that resolved
\* with an error code, and a direct call that fails ends with the failing
\* call's own exception.
C14_CallOrder ==
    /\ entry \in {"main", "create_snapshot"} =>
          \A k \in DOMAIN calls :
              /\ calls[k].api = "snapshots.insert" =>
                    k > 1 /\ calls[k - 1].api \in DiskGets /\ calls[k - 1].outcome = "ok"
              /\ calls[k].api = "operation.result" =>
                    k > 1 /\ calls[k - 1].api = "snapshots.insert" /\ calls[k - 1].outcome = "ok"
              /\ calls[k].api = "snapshots.get" =>
                    k > 1 /\ calls[k - 1].api = "operation.result" /\ calls[k - 1].outcome = "ok"
              /\ (calls[k].outcome = "raise" /\ k < Len(calls)) =>
                    entry = "main" /\ calls[k + 1].api = "disks.get"
    /\ (entry \in {"main", "create_snapshot"} /\ wt # NoArgs /\ wt.operation.error_code # 0) =>
          \A c \in Range(calls) : c.api = "snapshots.get" => "operation-" \o c.args.snapshot # wt.operation.name
    /\ (entry = "create_snapshot" /\ pc = "done" /\ calls # <<>> /\ calls[Len(calls)].outcome = "raise") =>
          /\ result = <<>>
          /\ exc # NoExc /\ exc[1].msg = calls[Len(calls)].error
    /\ (entry = "create_snapshot" /\ pc = "done" /\ result # <<>>) =>
          /\ Len(calls) = 4 /\ exc = NoExc
          /\ \A k \in 1..4 : calls[k].outcome = "ok"

\* A direct call of create_snapshot whose operation timed out: three
\* calls, no re-fetch, and the timeout is what the call raised.
C14_Witness ==
    /\ entry = "create_snapshot" /\ pc = "done" /\ Len(calls) = 3
    /\ calls[1].api \in DiskGets /\ calls[2].api = "snapshots.insert" /\ calls[3].api = "operation.result"
    /\ exc = <<Exc("TimeoutError", "Operation did not complete within the designated timeout")>>

\* C15: a request answered 400 has no provider-side effect: no listing,
\* disk fetch, snapshot insert, wait or snapshot get was issued for it.
C15_Rejected400NoCalls ==
    (entry = "main" /\ \E r \in Range(responses) : r.status = 400) =>
        /\ calls = <<>>
        /\ pending = {}
        /\ pc = "done"

\* A request without zone was answered 400 and no call was made.
C15_Witness ==
    /\ entry = "main" /\ pc = "done"
    /\ request.syntax = "json" /\ request.value.t = "dict" /\ request.value.keys = {"project"}
    /\ Truthy(project)
    /\ responses = <<Response(400, "error", "Missing 'project' or 'zone' in request")>>
    /\ calls = <<>>


\* The disk a per-disk call of a batch is about.
DiskOfCall(c) ==
    CASE c.api = "disks.get" -> c.args.disk
      [] c.api = "snapshots.insert" ->
            CHOOSE d \in DiskNames : c.args.snapshot_resource.name = SnapshotName(d, current_month_name, current_year)
      [] c.api = "operation.result" ->
            CHOOSE d \in DiskNames : c.args.operation = "operation-" \o SnapshotName(d, current_month_name, current_year)
      [] c.api = "snapshots.get" ->
            CHOOSE d \in DiskNames : c.args.snapshot = SnapshotName(d, current_month_name, current_year)

\* Its place in the listing.
PosOfCall(c) == CHOOSE i \in 1..Len(disks) : disks[i] = DiskOfCall(c)

\* Disks are processed one at a time, in the listing's order: the calls of
\* a batch never go back to an earlier disk, and none is about a disk
\* beyond the one create_snapshot is running for.
OneDiskAtATime ==
    entry = "main" =>
        \A k \in 2..Len(calls) :
            /\ PosOfCall(calls[k]) <= idx
            /\ pc = "csad_for" => PosOfCall(calls[k]) < idx
            /\ k < Len(calls) => PosOfCall(calls[k]) <= PosOfCall(calls[k + 1])

\* C16 as stated: one disk at a time, and at most one operation started by
\* the request pending at the provider at any moment.
C16_OnePendingOperation ==
    /\ OneDiskAtATime
    /\ entry = "main" => Cardinality(pending) <= 1

\* C16 as amended: one disk at a time, and at most one operation is being
\* waited on at any moment; an operation is still pending at the provider
\* while a later disk is processed only if the wait on it timed out or
\* failed, so at most one pending operation per disk already processed.
C16_OneDiskAtATime ==
    /\ OneDiskAtATime
    /\ entry = "main" =>
          /\ \A n \in pending :
                \/ pc = "w_result" /\ n = wt.operation.name
                \/ \E c \in Range(calls) : /\ c.api = "operation.result" /\ c.args.operation = n
                                           /\ c.outcome = "raise"
          /\ Cardinality(pending) <= Len(CallsOf("snapshots.insert"))
          /\ Cardinality(pending) <= idx

\* The wait on the first disk's operation timed out, and that operation is
\* still pending while the second disk's operation is waited on.
C16_Witness ==
    /\ entry = "main" /\ pc = "w_result" /\ idx = 2
    /\ Cardinality(pending) = 2
    /\ calls[4].error = "Operation did not complete within the designated timeout"


\* Every request handled by main reaches the end of main.
MainTerminates == (entry = "main") ~> (entry = "main" /\ pc = "done")

\* C17: termination.  With a finite listing and every provider call and
\* wait eventually returning, raising or timing out, every request handled
\* by main eventually reaches a terminal state with a response returned.
C17_EventuallyResponds == (entry = "main") ~> (entry = "main" /\ pc = "done" /\ Len(responses) = 1)


\* The orchestrator's outcome lines: what it printed to stdout.
Outcomes == SelectSeq(log, LAMBDA l : l.stream = "stdout")

\* Every call of create_snapshot for disk d returned: fetch, insert, wait
\* and re-fetch were all issued and none raised.
AllCallsOk(d) ==
    LET name == SnapshotName(d, current_month_name, current_year)
    IN  /\ \E c \in Range(calls) : c.api = "disks.get" /\ c.args.disk = d /\ c.outcome = "ok"
        /\ \E c \in Range(calls) : c.api = "snapshots.insert" /\ c.args.snapshot_resource.name = name /\ c.outcome = "ok"
        /\ \E c \in Range(calls) : c.api = "operation.result" /\ c.args.operation = "operation-" \o name /\ c.outcome = "ok"
        /\ \E c \in Range(calls) : c.api = "snapshots.get" /\ c.args.snapshot = name /\ c.outcome = "ok"

\* The texts a per-disk failure can carry: a call's exception, or the
\* exception made from an operation's error.
FailureTexts == {c.error : c \in Range(calls)} \cup {"409 already exists", "already exists"}

\* C18: one outcome line per disk processed, in the listing's order.  The
\* line says "created successfully" only for a disk whose fetch, insert,
\* wait and re-fetch all returned and whose operation resolved with no
\* error code; for every other disk it says "Snapshot creation failed".
C18_OneOutcomeLinePerDisk ==
    /\ (entry = "main" /\ pc \in {"csad_for", "main_return", "done"} /\ ListingReturned /\ idx >= 1) =>
          /\ Len(Outcomes) = idx - 1
          /\ pc \in {"main_return", "done"} => Len(Outcomes) = Len(disks)
          /\ \A i \in 1..(idx - 1) :
                IF Outcomes[i] = CreatedLine(disks[i])
                THEN AllCallsOk(disks[i])
                ELSE /\ ~AllCallsOk(disks[i])
                     /\ \E m \in FailureTexts : Outcomes[i] = FailedText(disks[i], m)
    /\ (entry = "main" /\ pc = "csad_created") =>
          /\ AllCallsOk(disks[idx])
          /\ wt.operation.name = "operation-" \o cs.snapshot_name
          /\ wt.operation.wait = "returns" /\ wt.operation.error_code = 0
    /\ (entry = "main" /\ pc = "csad_except") => ~AllCallsOk(disks[idx])


\* Witness for C18: a batch of two finished with the first disk's line
\* "created successfully" and the second's "failed", its operation having
\* resolved with an error code.
C18_Witness ==
    /\ entry = "main" /\ pc = "done" /\ ListingReturned /\ Len(disks) = 2
    /\ Outcomes = <<CreatedLine(disks[1]), FailedText(disks[2], "409 already exists")>>


\* C19: list_disks requires exactly one of zone/region.  With neither it
\* raises ValueError before any provider call; with exactly one it issues a
\* single list call on the matching client (zonal for zone, regional for
\* region) and, when the call returns, returns a list; with both it does
\* not go ahead: it raises and calls nothing.
C19_ExactlyOneScope ==
    (entry = "list_disks" /\ pc = "done") =>
        CASE ~Truthy(ld.zone) /\ ~Truthy(ld.region) ->
                 /\ exc = <<Exc("ValueError", "Either zone or region must be provided.")>>
                 /\ calls = <<>>
          [] Truthy(ld.zone) /\ ~Truthy(ld.region) ->
                 /\ Len(calls) = 1
                 /\ calls[1].api = "disks.list" /\ calls[1].args.scope = ld.zone
                 /\ calls[1].outcome = "ok" => (exc = NoExc /\ Len(result) = 1)
          [] ~Truthy(ld.zone) /\ Truthy(ld.region) ->
                 /\ Len(calls) = 1
                 /\ calls[1].api = "regionDisks.list" /\ calls[1].args.scope = ld.region
                 /\ calls[1].outcome = "ok" => (exc = NoExc /\ Len(result) = 1)
          [] Truthy(ld.zone) /\ Truthy(ld.region) ->
                 /\ exc # NoExc
                 /\ calls = <<>>

====
